---- MODULE Spec2Model ----
(***************************************************************************)
(* SimpleContext: the SQLite store (storage.py), the memory ledger and     *)
(* artifact vault (memory.py) and the error journal (errors.py).           *)
(*                                                                         *)
(* Text is modelled as a sequence of one-character strings, so that the    *)
(* three ways the program looks at text stay different from each other:    *)
(* the FTS5 unicode61 tokenizer (index and MATCH), SQLite's LIKE (forget)  *)
(* and binary equality (retrieve).                                         *)
(***************************************************************************)
EXTENDS Integers, Sequences, FiniteSets, TLC

VARIABLES
    memories,      \* table memories: set of rows (rowid is SQLite's implicit key)
    memories_fts,  \* FTS5 index: docsize (rowids indexed) and data (term instances)
    artifacts,     \* table artifacts
    errors,        \* table errors
    errSeq,        \* sqlite_sequence row of table errors (AUTOINCREMENT)
    config,        \* table config: set of [key, value]
    session,       \* table session
    now,           \* time.time(), in ticks of half a millisecond
    uuidCount,     \* number of uuid.uuid4() values drawn so far
    everIds,       \* history: every id remember has returned
    everStored,    \* history: per name, the contents stored under it, in order
    last,          \* history: the latest call, with its arguments and result
    args,          \* the message and the mode name a caller of modes.py holds
    conn           \* per SimpleStorage object of the server: is its connection open

vars == <<memories, memories_fts, artifacts, errors, errSeq, config,
          session, now, uuidCount, everIds, everStored, last, args, conn>>

\* The persisted data: everything the database file holds.
dbVars == <<memories, memories_fts, artifacts, errors, errSeq, config, session>>

ledgerVars  == <<memories, memories_fts, uuidCount, everIds>>
vaultVars   == <<artifacts, everStored>>
journalVars == <<errors, errSeq>>

(***************************************************************************)
(* Bounds of the model.                                                    *)
(***************************************************************************)
MaxRemember == 2     \* calls of remember (uuid4 draws of the ledger)
MaxStore    == 3     \* calls of store (uuid4 draws of the vault)
MaxLog      == 2     \* calls of log_error
MaxClock    == 2     \* latest reading of time.time()
MaxLimit    == 2     \* largest LIMIT a reader passes
MaxWords    == 3     \* words of a message passed to detect_mode
MaxWrites   == 3     \* remember, store and log_error calls of the whole server

(***************************************************************************)
(* Characters.                                                             *)
(***************************************************************************)
\* The letters and digits of the model's alphabet (unicode61: categories L*, N*).
\* "e'" stands for the single character U+00E9 (e with acute accent).
EAcute == "e'"

AlnumChars == {"a", "b", "c", "e", "u", "A", "B", "0", "9", EAcute}

\* unicode61 folds case and, with remove_diacritics=1, strips the accent.
Fold(c) ==
    CASE c = "A" -> "a"
      [] c = "B" -> "b"
      [] c = EAcute -> "e"
      [] OTHER -> c

\* SQLite's built-in LIKE folds the case of ASCII letters only.
AsciiLower(c) ==
    CASE c = "A" -> "a"
      [] c = "B" -> "b"
      [] OTHER -> c

IsTokenChar(c) == c \in AlnumChars

\* An FTS5 bareword: letters, digits, underscore and every non-ASCII character.
IsBarewordChar(c) == c \in AlnumChars \/ c = "_"

(***************************************************************************)
(* The unicode61 tokenizer: maximal runs of token characters, folded.      *)
(* The result is the sequence of tokens, its indices are the positions.    *)
(***************************************************************************)
RECURSIVE TokenizeFrom(_, _, _, _)
TokenizeFrom(s, i, cur, acc) ==
    IF i > Len(s)
    THEN IF cur = <<>> THEN acc ELSE Append(acc, cur)
    ELSE IF IsTokenChar(s[i])
         THEN TokenizeFrom(s, i + 1, Append(cur, Fold(s[i])), acc)
         ELSE TokenizeFrom(s, i + 1, <<>>,
                           IF cur = <<>> THEN acc ELSE Append(acc, cur))

Tokenize(s) == TokenizeFrom(s, 1, <<>>, <<>>)

TokenSet(s) == {Tokenize(s)[k] : k \in 1..Len(Tokenize(s))}

(***************************************************************************)
(* json.dumps(tags or []) with the default ensure_ascii=True, and          *)
(* json.loads of the stored text.                                          *)
(***************************************************************************)
JsonEscape(c) ==
    CASE c = EAcute -> <<"\\", "u", "0", "0", "e", "9">>
      [] c = "\"" -> <<"\\", "\"">>
      [] c = "\\" -> <<"\\", "\\">>
      [] OTHER -> <<c>>

RECURSIVE JsonString(_, _)
JsonString(t, i) ==
    IF i > Len(t) THEN <<>> ELSE JsonEscape(t[i]) \o JsonString(t, i + 1)

RECURSIVE JsonItems(_, _)
JsonItems(tags, i) ==
    IF i > Len(tags) THEN <<>>
    ELSE (IF i > 1 THEN <<",", " ">> ELSE <<>>)
         \o <<"\"">> \o JsonString(tags[i], 1) \o <<"\"">>
         \o JsonItems(tags, i + 1)

JsonDumps(tags) == <<"[">> \o JsonItems(tags, 1) \o <<"]">>

\* The character a \uXXXX escape denotes.
UnicodeChar(hex) == IF hex = <<"0", "0", "e", "9">> THEN EAcute ELSE "?"

RECURSIVE JsonParse(_, _, _, _, _)
JsonParse(s, i, inStr, cur, acc) ==
    IF i > Len(s) THEN acc
    ELSE IF ~inStr
         THEN JsonParse(s, i + 1, s[i] = "\"", <<>>, acc)
         ELSE CASE s[i] = "\"" -> JsonParse(s, i + 1, FALSE, <<>>, Append(acc, cur))
                [] s[i] = "\\" /\ i < Len(s) /\ s[i + 1] = "u" ->
                     JsonParse(s, i + 6, TRUE,
                               Append(cur, UnicodeChar(SubSeq(s, i + 2, i + 5))), acc)
                [] s[i] = "\\" /\ i < Len(s) /\ s[i + 1] # "u" ->
                     JsonParse(s, i + 2, TRUE, Append(cur, s[i + 1]), acc)
                [] OTHER -> JsonParse(s, i + 1, TRUE, Append(cur, s[i]), acc)

JsonLoads(s) == JsonParse(s, 1, FALSE, <<>>, <<>>)

(***************************************************************************)
(* SQLite's LIKE: "%" matches any run of characters, "_" any one           *)
(* character, every other character itself up to ASCII case.               *)
(***************************************************************************)
RECURSIVE LikeFrom(_, _, _, _)
LikeFrom(p, i, t, j) ==
    IF i > Len(p) THEN j > Len(t)
    ELSE IF p[i] = "%"
         THEN \E k \in j..(Len(t) + 1) : LikeFrom(p, i + 1, t, k)
         ELSE /\ j <= Len(t)
              /\ (p[i] = "_" \/ AsciiLower(p[i]) = AsciiLower(t[j]))
              /\ LikeFrom(p, i + 1, t, j + 1)

Like(text, pattern) == LikeFrom(pattern, 1, text, 1)

\* forget's parameter f"%{query}%".
ForgetPattern(query) == <<"%">> \o query \o <<"%">>

\* Literal, case-sensitive containment: what the words "contains q" mean.
Contains(text, q) ==
    \E k \in 1..(Len(text) - Len(q) + 1) : SubSeq(text, k, k + Len(q) - 1) = q

(***************************************************************************)
(* Inputs the callers pass.                                                *)
(***************************************************************************)
Contents == { <<>>, <<"a">>, <<"A", " ", "b">> }

TagLists == { <<>>, << <<"c">>, <<EAcute>> >> }

\* What a caller of remember passes: any content without tags, and one tagged
\* memory (tags reach only the tags column and the index, never the content).
Remembered == {r \in Contents \X TagLists : r[2] = <<>> \/ r[1] = <<>>}

Importances == {"medium"}

Queries == { <<"a">>, <<"b">>, <<"c">>, <<EAcute>>, <<"a", "_", "b">>, <<"%">> }

Limits == (-1)..MaxLimit

\* Artifact names differ in case only: retrieve compares names exactly.
Names == { <<"a">>, <<"A">> }

ArtifactContents == { <<>>, <<"x">>, <<"y">> }

ErrorActions == {"npm install", "pytest"}

ErrorTexts == {"EACCES"}

ErrorContexts == {""}

Resolutions == {""}

\* The ids a caller passes to resolve_error: 0 and MaxLog + 1 never exist.
ErrorIds == 0..(MaxLog + 1)

(***************************************************************************)
(* The FTS5 index memories_fts (external content: content='memories').     *)
(***************************************************************************)
\* The term instances FTS5 derives from one row's content and tags columns.
Instances(rowid, content, tags) ==
    LET ct == Tokenize(content)
        tt == Tokenize(tags)
    IN  {[rowid |-> rowid, col |-> "content", pos |-> k, term |-> ct[k]]
            : k \in 1..Len(ct)}
        \cup
        {[rowid |-> rowid, col |-> "tags", pos |-> k, term |-> tt[k]]
            : k \in 1..Len(tt)}

\* Trigger memories_ai: INSERT INTO memories_fts(rowid, content, tags).
\* A position list written for (term, rowid) supersedes an older one of the
\* same term and rowid; everything else in the index stays.
memories_ai(fts, new) ==
    LET inst  == Instances(new.rowid, new.content, new.tags)
        terms == {i.term : i \in inst}
    IN  [docsize |-> fts.docsize \cup {new.rowid},
         data    |-> {i \in fts.data : ~(i.rowid = new.rowid /\ i.term \in terms)}
                     \cup inst]

\* Trigger memories_ad: DELETE FROM memories_fts WHERE rowid = old.rowid.
\* To find the terms to remove, an external-content FTS5 table reads the row
\* old.rowid back from the content table; the trigger runs AFTER DELETE, on
\* the table mem from which the row is already gone.
memories_ad(fts, mem, old) ==
    LET cur == {m \in mem : m.rowid = old.rowid}
    IN  IF cur = {} THEN fts
        ELSE [docsize |-> fts.docsize \ {old.rowid},
              data    |-> fts.data \ UNION {Instances(m.rowid, m.content, m.tags)
                                              : m \in cur}]

\* The delete trigger, fired once per deleted row.
RECURSIVE DeleteRows(_, _, _)
DeleteRows(fts, mem, rows) ==
    IF rows = {} THEN fts
    ELSE LET old == CHOOSE r \in rows : TRUE
         IN  DeleteRows(memories_ad(fts, mem \ {old}, old), mem \ {old}, rows \ {old})

\* The barewords of a query string, split at spaces.
RECURSIVE SplitFrom(_, _, _, _)
SplitFrom(q, i, cur, acc) ==
    IF i > Len(q)
    THEN IF cur = <<>> THEN acc ELSE Append(acc, cur)
    ELSE IF q[i] = " "
         THEN SplitFrom(q, i + 1, <<>>, IF cur = <<>> THEN acc ELSE Append(acc, cur))
         ELSE SplitFrom(q, i + 1, Append(cur, q[i]), acc)

Barewords(q) == SplitFrom(q, 1, <<>>, <<>>)

\* FTS5 rejects a query that has no bareword or a character outside the
\* bareword characters (queries here hold no quote, colon or operator word).
QuerySyntaxError(q) ==
    \/ Barewords(q) = <<>>
    \/ \E i \in 1..Len(q) : ~IsBarewordChar(q[i]) /\ q[i] # " "

\* Each bareword is tokenized into a phrase; phrases without a token drop out.
Phrases(q) ==
    LET words == Barewords(q)
    IN  {Tokenize(words[k]) : k \in 1..Len(words)} \ {<<>>}

\* A phrase matches a row when its tokens stand at consecutive positions of
\* one column.
PhraseMatches(fts, rowid, phrase) ==
    \E first \in {i \in fts.data : i.rowid = rowid /\ i.term = phrase[1]} :
        \A k \in 1..Len(phrase) :
            [rowid |-> rowid, col |-> first.col, pos |-> first.pos + k - 1,
             term |-> phrase[k]] \in fts.data

\* memories_fts MATCH q, for the row rowid: every phrase occurs (implicit AND).
Match(fts, rowid, q) ==
    LET phrases == Phrases(q)
    IN  /\ phrases # {}
        /\ \A phrase \in phrases : PhraseMatches(fts, rowid, phrase)

(***************************************************************************)
(* Helpers of the SQL statements.                                          *)
(***************************************************************************)
MaxOf(S) == CHOOSE x \in S : \A y \in S : y <= x

\* The rowid SQLite gives a new row of a table without INTEGER PRIMARY KEY:
\* one more than the largest rowid in the table, 1 for an empty table.
NewRowid(mem) == IF mem = {} THEN 1 ELSE MaxOf({m.rowid : m \in mem}) + 1

\* Mutant: an identifier that is not drawn afresh.
Uuid4_fixed(n) == <<"u", 1>>

\* str(uuid.uuid4()): a fresh identifier for every call.
Uuid4(n) == <<"u", n + 1>>

\* The readings time.time() can give after the reading t (the clock does not
\* run backwards; two calls within one tick read the same value).
TimeReadings(t) == {u \in t..(t + 1) : u <= MaxClock}

\* julianday(t, 'unixepoch'): SQLite keeps a date as a whole number of
\* milliseconds, so the two ticks of one millisecond give the same day number.
JulianDay(t) == t \div 2

\* (julianday('now') - julianday(created_at, 'unixepoch')) as age_days.
AgeDays(created_at, t) == JulianDay(t) - JulianDay(created_at)

\* 1.0 / (1.0 + age_days * 0.1) as recency_score, kept as the fraction
\* <<numerator, denominator>> = <<10, 10 + age_days>>.
RecencyScore(created_at, t) == <<10, 10 + AgeDays(created_at, t)>>

\* x >= y for two such fractions with positive denominators.
ScoreGeq(x, y) == x[1] * y[2] >= y[1] * x[2]

\* ORDER BY recency_score DESC: every order of the rows S that is
\* non-increasing in the score (SQL leaves the order of equal scores open).
OrderByRecencyDesc(S, t) ==
    {s \in [1..Cardinality(S) -> S] :
        /\ \A i, j \in 1..Cardinality(S) : i # j => s[i] # s[j]
        /\ \A i, j \in 1..Cardinality(S) : i < j =>
              ScoreGeq(RecencyScore(s[i].created_at, t), RecencyScore(s[j].created_at, t))}

\* ORDER BY created_at DESC: every order of the rows S that is non-increasing
\* in created_at (SQL leaves the order of rows with equal keys open).
OrderByCreatedDesc(S) ==
    {s \in [1..Cardinality(S) -> S] :
        /\ \A i, j \in 1..Cardinality(S) : i # j => s[i] # s[j]
        /\ \A i, j \in 1..Cardinality(S) : i < j => s[i].created_at >= s[j].created_at}

\* The rows of table session in an order ORDER BY timestamp DESC allows.
OrderByTimestampDesc(S) ==
    {s \in [1..Cardinality(S) -> S] :
        /\ \A i, j \in 1..Cardinality(S) : i # j => s[i] # s[j]
        /\ \A i, j \in 1..Cardinality(S) : i < j => s[i].timestamp >= s[j].timestamp}

\* LIMIT n: the first n rows; a negative LIMIT means no limit.
Limit(s, n) == IF n < 0 \/ n >= Len(s) THEN s ELSE SubSeq(s, 1, n)

\* dict(row) with result['tags'] = json.loads(result['tags']).
MemoryDict(m, t) ==
    [id |-> m.id, content |-> m.content, tags |-> JsonLoads(m.tags),
     created_at |-> m.created_at, importance |-> m.importance,
     age_days |-> AgeDays(m.created_at, t),
     recency_score |-> RecencyScore(m.created_at, t)]

NoCall == [op |-> "none"]

NoArgs == [message |-> <<>>, mode |-> "coding"]

\* The server's two SimpleStorage objects on the one database file: the one
\* SimpleMemory builds for itself (memory.storage) and the module's storage,
\* which ErrorMemory and the context compiler use.
Handles == {"memory", "storage"}

AllOpen == [h \in Handles |-> TRUE]

\* What sqlite3 raises for a statement on a closed connection.
ClosedError == "ProgrammingError"

Init ==
    /\ memories = {}
    /\ memories_fts = [docsize |-> {}, data |-> {}]
    /\ artifacts = {}
    /\ errors = {}
    /\ errSeq = 0
    /\ config = {}
    /\ session = {}
    /\ now = 0
    /\ uuidCount = 0
    /\ everIds = {}
    /\ everStored = {}
    /\ last = NoCall
    /\ args = NoArgs
    /\ conn = AllOpen

(***************************************************************************)
(* SimpleMemory: the memory ledger.                                        *)
(***************************************************************************)
\* The rows recall's SELECT joins: live rows whose rowid the index matches.
RecallRows(mem, fts, query) == {m \in mem : Match(fts, m.rowid, query)}

\* Mutant: the DELETE compares with instr(content, ?) instead of LIKE.
ForgetRows_literal(mem, query) == {m \in mem : Contains(m.content, query)}

\* The rows forget's DELETE ... WHERE content LIKE ? removes.
ForgetRows(mem, query) == {m \in mem : Like(m.content, ForgetPattern(query))}

remember(content, tags, importance) ==
    /\ uuidCount < MaxRemember
    /\ \E t \in TimeReadings(now) :
        LET memory_id == Uuid4(uuidCount)
            tags_json == JsonDumps(tags)
            row == [rowid |-> NewRowid(memories), id |-> memory_id,
                    content |-> content, tags |-> tags_json,
                    created_at |-> t, importance |-> importance]
            call == [op |-> "remember", content |-> content, tags |-> tags,
                     importance |-> importance]
        IN  /\ now' = t
            /\ uuidCount' = uuidCount + 1
            /\ IF ~conn.memory
               THEN /\ UNCHANGED <<memories, memories_fts, everIds>>
                    /\ last' = call @@ [raised |-> ClosedError]
               ELSE IF \E m \in memories : m.id = memory_id
               THEN \* PRIMARY KEY violated: sqlite3.IntegrityError, nothing written
                    /\ UNCHANGED <<memories, memories_fts, everIds>>
                    /\ last' = call @@ [raised |-> "IntegrityError"]
               ELSE /\ memories' = memories \cup {row}
                    /\ memories_fts' = memories_ai(memories_fts, row)
                    /\ everIds' = everIds \cup {memory_id}
                    /\ last' = call @@ [raised |-> "none", ret |-> memory_id]
    /\ UNCHANGED <<vaultVars, journalVars, config, session, args, conn>>

recall(query, limit) ==
    /\ IF ~conn.memory
       THEN last' = [op |-> "recall", query |-> query, limit |-> limit,
                     raised |-> ClosedError]
       ELSE IF QuerySyntaxError(query)
       THEN last' = [op |-> "recall", query |-> query, limit |-> limit,
                     raised |-> "OperationalError"]
       ELSE \E s \in OrderByRecencyDesc(RecallRows(memories, memories_fts, query), now) :
              LET rows == Limit(s, limit)
              IN  last' = [op |-> "recall", query |-> query, limit |-> limit,
                           raised |-> "none",
                           ret |-> [k \in 1..Len(rows) |-> MemoryDict(rows[k], now)]]
    /\ UNCHANGED <<memories, memories_fts, uuidCount, everIds, vaultVars, journalVars,
                   config, session, args, conn, now>>

\* Mutant: the matching memories are blanked in place instead of deleted.
forget_redacts(query) ==
    LET rows == ForgetRows(memories, query)
    IN  /\ memories' = {IF m \in rows THEN [m EXCEPT !.content = <<>>] ELSE m :
                            m \in memories}
        /\ memories_fts' = memories_fts
        /\ last' = [op |-> "forget", query |-> query, raised |-> "none",
                    ret |-> Cardinality(rows)]
        /\ UNCHANGED <<uuidCount, everIds, vaultVars, journalVars, config, session,
                       args, conn, now>>

forget(query) ==
    LET rows == ForgetRows(memories, query)
    IN  /\ IF ~conn.memory
           THEN /\ UNCHANGED <<memories, memories_fts>>
                /\ last' = [op |-> "forget", query |-> query, raised |-> ClosedError]
           ELSE /\ memories' = memories \ rows
                /\ memories_fts' = DeleteRows(memories_fts, memories, rows)
                /\ last' = [op |-> "forget", query |-> query, raised |-> "none",
                            ret |-> Cardinality(rows)]
        /\ UNCHANGED <<uuidCount, everIds, vaultVars, journalVars, config, session, args, conn, now>>

NextLedger ==
    \/ \E r \in Remembered, i \in Importances : remember(r[1], r[2], i)
    \/ \E q \in Queries, n \in Limits : recall(q, n)
    \/ \E q \in Queries : forget(q)

SpecLedger == Init /\ [][NextLedger]_vars

(***************************************************************************)
(* SimpleMemory: the artifact vault.                                       *)
(***************************************************************************)
\* Mutant: a plain INSERT into a table whose name column is not UNIQUE.
InsertOrReplace_plain(tbl, row) == tbl \cup {row}

\* Mutant: INSERT OR IGNORE, which keeps the row already stored under the name.
InsertOrReplace_ignore(tbl, row) ==
    IF \E a \in tbl : a.id = row.id \/ a.name = row.name THEN tbl ELSE tbl \cup {row}

\* INSERT OR REPLACE INTO artifacts: the rows that conflict with the new row
\* on the PRIMARY KEY id or on the UNIQUE name are deleted, then it is added.
InsertOrReplace(tbl, row) ==
    {a \in tbl : a.id # row.id /\ a.name # row.name} \cup {row}

\* Mutant: the names are compared without regard to letter case.
SelectContent_nocase(tbl, name) ==
    LET fold(n) == [k \in 1..Len(n) |-> AsciiLower(n[k])]
        rows == {a \in tbl : fold(a.name) = fold(name)}
    IN  IF rows = {} THEN [none |-> TRUE]
        ELSE [none |-> FALSE, value |-> (CHOOSE a \in rows : TRUE).content]

\* SELECT content FROM artifacts WHERE name = ? and fetchone(): None without
\* a row, else the content of the first row.
SelectContent(tbl, name) ==
    LET rows == {a \in tbl : a.name = name}
    IN  IF rows = {} THEN [none |-> TRUE]
        ELSE [none |-> FALSE, value |-> (CHOOSE a \in rows : TRUE).content]

\* The contents stored under name so far, oldest first.
StoredUnder(name) ==
    IF \E e \in everStored : e.name = name
    THEN (CHOOSE e \in everStored : e.name = name).contents
    ELSE <<>>

store(name, content) ==
    /\ uuidCount < MaxStore
    /\ \E t \in TimeReadings(now) :
        LET artifact_id == Uuid4(uuidCount)
            size == Len(content)
            row == [id |-> artifact_id, name |-> name, content |-> content,
                    size |-> size, created_at |-> t]
        IN  /\ now' = t
            /\ uuidCount' = uuidCount + 1
            /\ IF ~conn.memory
               THEN /\ UNCHANGED <<artifacts, everStored>>
                    /\ last' = [op |-> "store", name |-> name, content |-> content,
                                raised |-> ClosedError]
               ELSE /\ artifacts' = InsertOrReplace(artifacts, row)
                    /\ everStored' = {e \in everStored : e.name # name}
                                        \cup {[name |-> name,
                                               contents |-> Append(StoredUnder(name), content)]}
                    /\ last' = [op |-> "store", name |-> name, content |-> content,
                                raised |-> "none", ret |-> artifact_id]
    /\ UNCHANGED <<memories, memories_fts, everIds, journalVars, config, session, args, conn>>

retrieve(name) ==
    /\ IF ~conn.memory
       THEN last' = [op |-> "retrieve", name |-> name, raised |-> ClosedError]
       ELSE last' = [op |-> "retrieve", name |-> name, raised |-> "none",
                     ret |-> SelectContent(artifacts, name)]
    /\ UNCHANGED <<ledgerVars, vaultVars, journalVars, config, session, args, conn, now>>

NextVault ==
    \/ \E n \in Names, c \in ArtifactContents : store(n, c)
    \/ \E n \in Names : retrieve(n)

SpecVault == Init /\ [][NextVault]_vars

(***************************************************************************)
(* ErrorMemory: the error journal.                                         *)
(***************************************************************************)
\* Mutant: the UPDATE flips the flag (SET resolved = 1 - resolved).
UpdateResolved_toggle(tbl, error_id) ==
    {IF e.id = error_id THEN [e EXCEPT !.resolved = 1 - e.resolved] ELSE e : e \in tbl}

\* Mutant: the UPDATE has lost its WHERE clause.
UpdateResolved_all(tbl, error_id) == {[e EXCEPT !.resolved = 1] : e \in tbl}

\* UPDATE errors SET resolved = 1 WHERE id = ?
UpdateResolved(tbl, error_id) ==
    {IF e.id = error_id THEN [e EXCEPT !.resolved = 1] ELSE e : e \in tbl}

\* cursor.rowcount of that UPDATE: the rows its WHERE clause selects.
UpdateRowcount(tbl, error_id) == Cardinality({e \in tbl : e.id = error_id})

\* Mutant: the unresolved_only flag is ignored.
RecentRows_all(tbl, unresolved_only) == tbl

\* The rows get_recent_errors selects, before ORDER BY and LIMIT.
RecentRows(tbl, unresolved_only) ==
    IF unresolved_only THEN {e \in tbl : e.resolved = 0} ELSE tbl

log_error(action, error, context) ==
    /\ errSeq < MaxLog
    /\ \E t \in TimeReadings(now) :
        LET error_id == errSeq + 1      \* AUTOINCREMENT
            row == [id |-> error_id, action |-> action, error |-> error,
                    context |-> context, created_at |-> t, resolved |-> 0]
        IN  /\ now' = t
            /\ IF ~conn.storage
               THEN /\ UNCHANGED <<errors, errSeq>>
                    /\ last' = [op |-> "log_error", action |-> action,
                                raised |-> ClosedError]
               ELSE /\ errors' = errors \cup {row}
                    /\ errSeq' = error_id
                    /\ last' = [op |-> "log_error", action |-> action, raised |-> "none",
                                ret |-> error_id]
    /\ UNCHANGED <<ledgerVars, vaultVars, config, session, args, conn>>

resolve_error(error_id, resolution) ==
    /\ IF ~conn.storage
       THEN /\ UNCHANGED errors
            /\ last' = [op |-> "resolve_error", error_id |-> error_id,
                        raised |-> ClosedError]
       ELSE /\ errors' = UpdateResolved(errors, error_id)
            /\ last' = [op |-> "resolve_error", error_id |-> error_id, raised |-> "none",
                        ret |-> (UpdateRowcount(errors, error_id) > 0)]
    /\ UNCHANGED <<ledgerVars, vaultVars, errSeq, config, session, args, conn, now>>

get_recent_errors(limit, unresolved_only) ==
    /\ IF ~conn.storage
       THEN last' = [op |-> "get_recent_errors", limit |-> limit,
                     unresolved_only |-> unresolved_only, raised |-> ClosedError]
       ELSE \E s \in OrderByCreatedDesc(RecentRows(errors, unresolved_only)) :
              last' = [op |-> "get_recent_errors", limit |-> limit,
                       unresolved_only |-> unresolved_only, raised |-> "none",
                       ret |-> Limit(s, limit)]
    /\ UNCHANGED <<ledgerVars, vaultVars, journalVars, config, session, args, conn, now>>

NextJournal ==
    \/ \E a \in ErrorActions, e \in ErrorTexts, c \in ErrorContexts : log_error(a, e, c)
    \/ \E i \in ErrorIds, r \in Resolutions : resolve_error(i, r)
    \/ \E n \in Limits, u \in BOOLEAN : get_recent_errors(n, u)

SpecJournal == Init /\ [][NextJournal]_vars

(***************************************************************************)
(* SimpleMemory.status, and the server's objects on one database.          *)
(***************************************************************************)
DbPath == ".simplecontext.db"

\* Mutant: COUNT(*) FROM errors without its WHERE clause.
CountUnresolved_all(tbl) == Cardinality(tbl)

\* SELECT COUNT(*) FROM errors WHERE resolved = 0
CountUnresolved(tbl) == Cardinality({e \in tbl : e.resolved = 0})

\* SELECT value FROM config WHERE key = 'current_mode', or 'coding' without a row.
CurrentMode(cfg) ==
    IF \E r \in cfg : r.key = "current_mode"
    THEN (CHOOSE r \in cfg : r.key = "current_mode").value
    ELSE "coding"

StatusDict ==
    [memories |-> Cardinality(memories),
     artifacts |-> Cardinality(artifacts),
     unresolved_errors |-> CountUnresolved(errors),
     mode |-> CurrentMode(config),
     db_path |-> DbPath]

\* Mutant: status records the mode it reports.
status_recordsMode ==
    /\ last' = [op |-> "status", raised |-> "none", ret |-> StatusDict]
    /\ config' = {r \in config : r.key # "current_mode"}
                    \cup {[key |-> "current_mode", value |-> CurrentMode(config)]}
    /\ UNCHANGED <<ledgerVars, vaultVars, journalVars, session, args, conn, now>>

status ==
    /\ IF ~conn.memory
       THEN last' = [op |-> "status", raised |-> ClosedError]
       ELSE last' = [op |-> "status", raised |-> "none", ret |-> StatusDict]
    /\ UNCHANGED <<ledgerVars, vaultVars, journalVars, config, session, args, conn, now>>

(***************************************************************************)
(* SimpleStorage: closing a store and opening one on the existing file.    *)
(***************************************************************************)
\* Mutant: close leaves the connection as it is.
close_keepsOpen(h) ==
    /\ last' = [op |-> "close", handle |-> h, raised |-> "none"]
    /\ UNCHANGED <<ledgerVars, vaultVars, journalVars, config, session, args, conn, now>>

\* SimpleStorage.close: conn.close(), which sqlite3 accepts on a closed
\* connection too; self.conn is never reset.
close(h) ==
    /\ conn' = [conn EXCEPT ![h] = FALSE]
    /\ last' = [op |-> "close", handle |-> h, raised |-> "none"]
    /\ UNCHANGED <<ledgerVars, vaultVars, journalVars, config, session, args, now>>

\* Every state of the model follows the first open, which created the schema.
SchemaExists == TRUE

\* Mutant: the table is dropped and created again.
CreateIfNotExists_recreate(exists, tbl, empty) == empty

\* CREATE [VIRTUAL] TABLE IF NOT EXISTS: an existing table keeps its rows.
CreateIfNotExists(exists, tbl, empty) == IF exists THEN tbl ELSE empty

\* SimpleStorage.__init__ on the path of the existing database (a new
\* SimpleMemory for the handle "memory"): connect and _init_schema.
reopen(h) ==
    /\ ~conn[h]
    /\ memories' = CreateIfNotExists(SchemaExists, memories, {})
    /\ memories_fts' = CreateIfNotExists(SchemaExists, memories_fts,
                                        [docsize |-> {}, data |-> {}])
    /\ artifacts' = CreateIfNotExists(SchemaExists, artifacts, {})
    /\ errors' = CreateIfNotExists(SchemaExists, errors, {})
    /\ session' = CreateIfNotExists(SchemaExists, session, {})
    /\ config' = CreateIfNotExists(SchemaExists, config, {})
    /\ conn' = [conn EXCEPT ![h] = TRUE]
    /\ last' = [op |-> "open", handle |-> h, raised |-> "none"]
    /\ UNCHANGED <<errSeq, uuidCount, everIds, everStored, args, now>>

(***************************************************************************)
(* simplecontext.py: the context compiled for the prompt.                  *)
(***************************************************************************)
\* Mutant: the errors are listed in every mode.
ListsErrors_always(mode) == TRUE

\* if mode == "debugging"
ListsErrors(mode) == mode = "debugging"

\* The sections get_context_for_claude joins, in order; a section without
\* items is left out.  (The budget it fetches for the mode is not used.)
Sections(session_items, memory_items, error_items, artifact_names) ==
    (IF session_items # <<>>
     THEN << [title |-> "Recent Session", items |-> session_items] >> ELSE <<>>)
    \o (IF memory_items # <<>>
        THEN << [title |-> "Memories", items |-> memory_items] >> ELSE <<>>)
    \o (IF error_items # <<>>
        THEN << [title |-> "Recent Errors", items |-> error_items] >> ELSE <<>>)
    \o (IF artifact_names # {}
        THEN << [title |-> "Available Artifacts", items |-> artifact_names] >> ELSE <<>>)

get_context_for_claude ==
    /\ IF ~conn.storage
       THEN last' = [op |-> "get_context_for_claude", raised |-> ClosedError]
       ELSE \E ss \in OrderByTimestampDesc(session),
               ms \in OrderByCreatedDesc(memories),
               es \in OrderByCreatedDesc(RecentRows(errors, TRUE)) :
              LET mode == CurrentMode(config)
                  session_items == Limit(ss, 10)
                  memory_rows == Limit(ms, 5)
                  memory_items == [k \in 1..Len(memory_rows) |-> memory_rows[k].content]
                  error_rows == IF ListsErrors(mode) THEN Limit(es, 5) ELSE <<>>
                  error_items == [k \in 1..Len(error_rows) |->
                                     <<error_rows[k].action, error_rows[k].error>>]
                  artifact_names == {a.name : a \in artifacts}
              IN  last' = [op |-> "get_context_for_claude", raised |-> "none",
                           ret |-> Sections(session_items, memory_items,
                                            error_items, artifact_names)]
    /\ UNCHANGED <<ledgerVars, vaultVars, journalVars, config, session, args, conn, now>>

\* The server's calls on its one database, with few writes and one value
\* for most arguments.
NextSystem ==
    \/ /\ uuidCount + errSeq < MaxWrites
       /\ \/ \E c \in {<<"a">>, <<"A", " ", "b">>} : remember(c, <<>>, "medium")
          \/ \E n \in Names : store(n, <<"x">>)
          \/ log_error("pytest", "EACCES", "")
    \/ \E q \in {<<"a">>, <<"b">>} : forget(q)
    \/ \E i \in ErrorIds : resolve_error(i, "")
    \/ \E q \in {<<"a">>, <<"%">>} : recall(q, MaxLimit)
    \/ \E n \in Names : retrieve(n)
    \/ \E u \in BOOLEAN : get_recent_errors(MaxLimit, u)
    \/ status
    \/ get_context_for_claude

SpecSystem == Init /\ [][NextSystem]_vars

\* The server's calls, one of each kind, with the closing of its two stores
\* and their opening again on the existing file.
NextLifecycle ==
    \/ /\ uuidCount + errSeq < MaxWrites
       /\ \/ remember(<<"a">>, <<>>, "medium")
          \/ store(<<"a">>, <<"x">>)
          \/ log_error("pytest", "EACCES", "")
    \/ forget(<<"a">>)
    \/ resolve_error(1, "")
    \/ recall(<<"a">>, MaxLimit)
    \/ retrieve(<<"a">>)
    \/ get_recent_errors(MaxLimit, TRUE)
    \/ status
    \/ get_context_for_claude
    \/ \E h \in Handles : close(h)
    \/ \E h \in Handles : reopen(h)

SpecLifecycle == Init /\ [][NextLifecycle]_vars

(***************************************************************************)
(* modes.py: mode detection and the attention budgets.                     *)
(***************************************************************************)
\* Mutant: the debugging fractions add up to more than the whole.
MODES_overfull ==
    [coding |-> [memories |-> 30, artifacts |-> 30, session |-> 25,
                 errors |-> 10, goal |-> 5],
     debugging |-> [errors |-> 50, session |-> 25, memories |-> 15,
                    artifacts |-> 10, goal |-> 5]]

\* The fractions of MODES, counted in hundredths.
MODES ==
    [coding |-> [memories |-> 30, artifacts |-> 30, session |-> 25,
                 errors |-> 10, goal |-> 5],
     debugging |-> [errors |-> 50, session |-> 25, memories |-> 15,
                    artifacts |-> 10, goal |-> 0]]

DEBUG_KEYWORDS ==
    << <<"e", "r", "r", "o", "r">>,
       <<"b", "u", "g">>,
       <<"f", "a", "i", "l">>,
       <<"f", "a", "i", "l", "i", "n", "g">>,
       <<"b", "r", "o", "k", "e", "n">>,
       <<"c", "r", "a", "s", "h">>,
       <<"c", "r", "a", "s", "h", "e", "s">>,
       <<"e", "x", "c", "e", "p", "t", "i", "o", "n">>,
       <<"t", "r", "a", "c", "e", "b", "a", "c", "k">>,
       <<"s", "t", "a", "c", "k", " ", "t", "r", "a", "c", "e">>,
       <<"f", "i", "x">>,
       <<"d", "e", "b", "u", "g">>,
       <<"d", "e", "b", "u", "g", "g", "i", "n", "g">>,
       <<"n", "o", "t", " ", "w", "o", "r", "k", "i", "n", "g">>,
       <<"d", "o", "e", "s", "n", "'", "t", " ", "w", "o", "r", "k">>,
       <<"w", "o", "n", "'", "t", " ", "w", "o", "r", "k">> >>

UpperCase == <<"A", "B", "C", "D", "E", "F", "G", "H", "I", "J", "K", "L", "M", "N", "O", "P", "Q", "R", "S", "T", "U", "V", "W", "X", "Y", "Z">>
LowerCase == <<"a", "b", "c", "d", "e", "f", "g", "h", "i", "j", "k", "l", "m", "n", "o", "p", "q", "r", "s", "t", "u", "v", "w", "x", "y", "z">>

\* str.lower() of one character.
LowerChar(c) ==
    IF \E i \in 1..Len(UpperCase) : UpperCase[i] = c
    THEN LowerCase[CHOOSE i \in 1..Len(UpperCase) : UpperCase[i] = c]
    ELSE c

\* Mutant: the message is compared as typed.
StrLower_asTyped(text) == text

\* message.lower()
StrLower(text) == [i \in 1..Len(text) |-> LowerChar(text[i])]

\* keyword in message_lower
KeywordIn(keyword, message_lower) ==
    \E k \in 1..(Len(message_lower) - Len(keyword) + 1) :
        SubSeq(message_lower, k, k + Len(keyword) - 1) = keyword

\* The for loop over the keywords, returning at the first match.
RECURSIVE DetectFrom(_, _, _)
DetectFrom(keywords, k, message_lower) ==
    IF k > Len(keywords) THEN "coding"
    ELSE IF KeywordIn(keywords[k], message_lower) THEN "debugging"
    ELSE DetectFrom(keywords, k + 1, message_lower)

\* The messages passed to detect_mode: words joined by single spaces (an empty
\* word gives a leading, trailing or doubled space).
RECURSIVE JoinWords(_)
JoinWords(ws) ==
    IF ws = <<>> THEN <<>>
    ELSE IF Len(ws) = 1 THEN ws[1]
    ELSE ws[1] \o <<" ">> \o JoinWords(Tail(ws))

Vocabulary ==
    { <<>>,
      <<"S", "t", "a", "c", "k">>,
      <<"t", "r", "a", "c", "e">>,
      <<"n", "o", "t">>,
      <<"w", "o", "r", "k", "i", "n", "g">>,
      <<"w", "o", "n", "'", "t">>,
      <<"w", "o", "r", "k">>,
      <<"P", "R", "E", "F", "I", "X">>,
      <<"R", "e", "f", "a", "c", "t", "o", "r">>,
      <<"B", "u", "g">> }

TheTestsAreFailing ==
    JoinWords(<<<<"T", "h", "e">>,
                <<"t", "e", "s", "t", "s">>,
                <<"a", "r", "e">>,
                <<"f", "a", "i", "l", "i", "n", "g">>>>)

FixTheBugInAuthPy ==
    JoinWords(<<<<"F", "i", "x">>,
                <<"t", "h", "e">>,
                <<"b", "u", "g">>,
                <<"i", "n">>,
                <<"a", "u", "t", "h", ".", "p", "y">>>>)

AddALoginFeature ==
    JoinWords(<<<<"A", "d", "d">>,
                <<"a">>,
                <<"l", "o", "g", "i", "n">>,
                <<"f", "e", "a", "t", "u", "r", "e">>>>)

RefactorTheUserService ==
    JoinWords(<<<<"R", "e", "f", "a", "c", "t", "o", "r">>,
                <<"t", "h", "e">>,
                <<"u", "s", "e", "r">>,
                <<"s", "e", "r", "v", "i", "c", "e">>>>)

TestMessages ==
    {TheTestsAreFailing, FixTheBugInAuthPy, AddALoginFeature, RefactorTheUserService}

Messages ==
    TestMessages \cup
    {JoinWords(ws) : ws \in UNION {[1..n -> Vocabulary] : n \in 0..MaxWords}}

ModeNames == {"coding", "debugging", "planning", ""}

detect_mode(message) ==
    /\ last' = [op |-> "detect_mode", message |-> message,
                ret |-> DetectFrom(DEBUG_KEYWORDS, 1, StrLower(message))]
    /\ UNCHANGED <<ledgerVars, vaultVars, journalVars, config, session, args, conn, now>>

get_attention_budget(mode) ==
    /\ last' = [op |-> "get_attention_budget", mode |-> mode,
                ret |-> IF mode \in DOMAIN MODES THEN MODES[mode] ELSE MODES["coding"]]
    /\ UNCHANGED <<ledgerVars, vaultVars, journalVars, config, session, args, conn, now>>

NextModes ==
    \/ detect_mode(args.message)
    \/ get_attention_budget(args.mode)

\* The tables as Init leaves them, and any message and mode name in the
\* caller's hands.
InitModes ==
    /\ memories = {}
    /\ memories_fts = [docsize |-> {}, data |-> {}]
    /\ artifacts = {}
    /\ errors = {}
    /\ errSeq = 0
    /\ config = {}
    /\ session = {}
    /\ now = 0
    /\ uuidCount = 0
    /\ everIds = {}
    /\ everStored = {}
    /\ last = NoCall
    /\ args \in [message : Messages, mode : ModeNames]
    /\ conn = AllOpen

SpecModes == InitModes /\ [][NextModes]_vars

Next ==
    \/ NextLedger
    \/ NextVault
    \/ NextJournal
    \/ status
    \/ get_context_for_claude
    \/ \E h \in Handles : close(h)
    \/ \E h \in Handles : reopen(h)
    \/ NextModes

Spec == Init /\ [][Next]_vars

(***************************************************************************)
(* Properties of the memory ledger and its index (SpecLedger).             *)
(***************************************************************************)
EmptyIndex == [docsize |-> {}, data |-> {}]

\* The row m matches q by its own content and tags, as indexed alone.
OwnMatch(m, q) == Match(memories_ai(EmptyIndex, m), m.rowid, q)

\* q is one word whose token is a token of the content or of one of the tags.
QueryIsTokenOf(q, content, tags) ==
    /\ Len(Tokenize(q)) = 1
    /\ Len(Barewords(q)) = 1
    /\ \/ Tokenize(q)[1] \in TokenSet(content)
       \/ \E k \in 1..Len(tags) : Tokenize(q)[1] \in TokenSet(tags[k])

\* A limit that holds every row of S.
LimitHolds(n, S) == n >= Cardinality(S)

\* C1: after any sequence of remember and forget the index holds exactly one
\* entry per live memory row and none for a deleted row: the indexed rowids
\* are the rowids of the table, and the indexed terms are those of each row's
\* current content and tags.
C1_IndexMirrorsTable ==
    /\ memories_fts.docsize = {m.rowid : m \in memories}
    /\ memories_fts.data =
         UNION {Instances(m.rowid, m.content, m.tags) : m \in memories}

\* C2: recall(q) issued right after remember(content, tags), for q a token of
\* the content or of the tags and a limit that holds all matches, returns a
\* result that includes the memory just stored, content and tags unchanged.
C2_RecallFindsRemembered ==
    [][ ( /\ last.op = "remember" /\ last.raised = "none"
          /\ last'.op = "recall"
          /\ QueryIsTokenOf(last'.query, last.content, last.tags)
          /\ LimitHolds(last'.limit, RecallRows(memories, memories_fts, last'.query)) )
        => /\ last'.raised = "none"
           /\ \E k \in 1..Len(last'.ret) :
                /\ last'.ret[k].id = last.ret
                /\ last'.ret[k].content = last.content
                /\ last'.ret[k].tags = last.tags ]_vars

\* C3: forget(q) followed by recall(q) returns the empty sequence whenever no
\* remaining memory contains q; the memories forget's pattern does not select
\* stay stored and indexed; forget returns the number of memories it deleted.
C3_ForgetThenRecallEmpty ==
    [][ /\ ( /\ last.op = "forget"
             /\ last'.op = "recall"
             /\ last'.query = last.query
             /\ \A m \in memories : ~Like(m.content, ForgetPattern(last.query))
             /\ \A m \in memories : ~OwnMatch(m, last.query) )
           => (last'.raised = "none" => last'.ret = <<>>)
        /\ (last'.op = "forget" /\ last' # last)
           => /\ \A m \in memories :
                    ~Like(m.content, ForgetPattern(last'.query))
                    => /\ m \in memories'
                       /\ Instances(m.rowid, m.content, m.tags)
                              \subseteq memories_fts'.data
              /\ last'.ret = Cardinality(memories \ memories') ]_vars

\* C4 as stated: forget(query) deletes exactly the memories whose content
\* contains query as a case-sensitive literal substring, and returns their
\* number.
C4_ForgetLiteralSubstring ==
    [][ (last'.op = "forget" /\ last' # last)
        => /\ memories' = {m \in memories : ~Contains(m.content, last'.query)}
           /\ last'.ret = Cardinality({m \in memories : Contains(m.content, last'.query)})
      ]_vars

\* C4 amended: forget(query) deletes exactly the memories whose content
\* matches the LIKE pattern %query% (letter case of ASCII ignored, "_" and
\* "%" of the query wildcards) and no other, and returns the number deleted,
\* 0 when none matches.
C4_ForgetLikePattern ==
    [][ (last'.op = "forget" /\ last' # last)
        => /\ last'.raised = "none"
           /\ memories' = {m \in memories : ~Like(m.content, ForgetPattern(last'.query))}
           /\ last'.ret = Cardinality(memories) - Cardinality(memories')
           /\ last'.ret >= 0 ]_vars

\* A forget that deleted a memory whose content does not hold the query
\* literally, next to one that deleted nothing.
C4_Witness ==
    /\ last.op = "forget"
    /\ last.query = <<"a", "_", "b">>
    /\ last.ret = 1

\* C5: every remember of non-empty content returns a non-empty id that no
\* memory ever stored has had, also when the content repeats, and adds
\* exactly one memory row.
C5_RememberFreshId ==
    [][ (last'.op = "remember" /\ uuidCount' # uuidCount /\ last'.content # <<>>)
        => /\ last'.raised = "none"
           /\ last'.ret # <<>>
           /\ last'.ret \notin everIds
           /\ \A m \in memories : m.id # last'.ret
           /\ Cardinality(memories') = Cardinality(memories) + 1
           /\ memories \subseteq memories'
           /\ \A m \in memories' \ memories :
                m.id = last'.ret /\ m.content = last'.content ]_vars

\* The same content remembered twice, under two ids.
C5_Witness ==
    /\ last.op = "remember"
    /\ last.content # <<>>
    /\ \E m1, m2 \in memories :
        m1.id # m2.id /\ m1.content = m2.content /\ m2.id = last.ret

(***************************************************************************)
(* Properties of the artifact vault (SpecVault).                           *)
(***************************************************************************)
StoredNames == {e.name : e \in everStored}

\* C6: after any sequence of stores there is at most one artifact per name,
\* and the number of artifacts is the number of distinct names stored: a
\* store under an existing name does not increase it.
C6_OneArtifactPerName ==
    /\ \A a, b \in artifacts : a.name = b.name => a = b
    /\ Cardinality(artifacts) = Cardinality(StoredNames)

\* One name stored more than once, still one artifact.
C6_Witness ==
    /\ last.op = "store"
    /\ Len(StoredUnder(last.name)) >= 2
    /\ Cardinality({a \in artifacts : a.name = last.name}) = 1

\* C7: retrieve(name) returns the content of the most recent store(name, _)
\* for that exact name, whatever was stored under other names in between.
C7_RetrieveLatestStore ==
    (last.op = "retrieve" /\ last.name \in StoredNames)
    => /\ last.raised = "none"
       /\ ~last.ret.none
       /\ last.ret.value = StoredUnder(last.name)[Len(StoredUnder(last.name))]

\* retrieve returns c2 after store(name, c1), store(name, c2) with c1 # c2,
\* while another name holds an artifact too.
C7_Witness ==
    /\ last.op = "retrieve"
    /\ Len(StoredUnder(last.name)) >= 2
    /\ StoredUnder(last.name)[Len(StoredUnder(last.name)) - 1]
          # StoredUnder(last.name)[Len(StoredUnder(last.name))]
    /\ ~last.ret.none
    /\ last.ret.value = StoredUnder(last.name)[Len(StoredUnder(last.name))]
    /\ Cardinality(StoredNames) = 2

\* C8: retrieve(name) for a name under which nothing is stored returns the
\* absent value without raising and changes nothing; content comes back only
\* for an artifact of exactly that name, and a stored artifact is never
\* reported as absent.
C8_RetrieveAbsent ==
    [][ (last'.op = "retrieve" /\ last' # last)
        => /\ last'.raised = "none"
           /\ last'.ret.none <=> (last'.name \notin StoredNames)
           /\ ~last'.ret.none =>
                \E a \in artifacts : a.name = last'.name /\ a.content = last'.ret.value
           /\ UNCHANGED <<memories, memories_fts, artifacts, errors, errSeq,
                          config, session, everStored>> ]_vars

\* Nothing is stored under the name asked for, while an artifact exists
\* under the name that differs from it in letter case only.
C8_Witness ==
    /\ last.op = "retrieve"
    /\ last.ret.none
    /\ artifacts # {}
    /\ last.name \notin {a.name : a \in artifacts}

(***************************************************************************)
(* Properties of the error journal (SpecJournal).                          *)
(***************************************************************************)
\* C9: resolve(id) for an id no error record has returns false and leaves
\* every error record unchanged.
C9_ResolveUnknownId ==
    [][ ( /\ last'.op = "resolve_error"
          /\ last' # last
          /\ last'.error_id \notin {e.id : e \in errors} )
        => /\ last'.raised = "none"
           /\ last'.ret = FALSE
           /\ errors' = errors
           /\ errSeq' = errSeq ]_vars

\* resolve of an unknown id returned false while unresolved records exist.
C9_Witness ==
    /\ last.op = "resolve_error"
    /\ last.error_id \notin {e.id : e \in errors}
    /\ last.ret = FALSE
    /\ \E e \in errors : e.resolved = 0

\* A limit that holds every row of S; a negative LIMIT is no limit.
LimitPermits(n, S) == n < 0 \/ n >= Cardinality(S)

\* C10: a newly logged error is unresolved and is listed by
\* get_recent_errors(unresolved_only=True), limit permitting; resolve(id) on
\* an existing id returns true, and from then on that error is left out of
\* the unresolved-only listing and still listed with unresolved_only=False.
C10_ResolveHidesError ==
    /\ [][ /\ (last'.op = "log_error" /\ errSeq' # errSeq)
              => \E e \in errors' \ errors : e.id = last'.ret /\ e.resolved = 0
           /\ ( /\ last.op = "log_error"
                /\ last'.op = "get_recent_errors"
                /\ last'.unresolved_only
                /\ LimitPermits(last'.limit, {e \in errors : e.resolved = 0}) )
              => \E k \in 1..Len(last'.ret) :
                    last'.ret[k].id = last.ret /\ last'.ret[k].resolved = 0
           /\ ( /\ last'.op = "resolve_error"
                /\ last' # last
                /\ last'.error_id \in {e.id : e \in errors} )
              => /\ last'.ret = TRUE
                 /\ \A e \in errors' : e.id = last'.error_id => e.resolved = 1 ]_vars
    /\ [] ( last.op = "get_recent_errors"
            => \A e \in errors :
                 e.resolved = 1 =>
                   /\ last.unresolved_only
                        => \A k \in 1..Len(last.ret) : last.ret[k].id # e.id
                   /\ (~last.unresolved_only /\ LimitPermits(last.limit, errors))
                        => \E k \in 1..Len(last.ret) : last.ret[k] = e )

\* An unresolved-only listing that shows an open error next to a resolved one.
C10_Witness ==
    /\ last.op = "get_recent_errors"
    /\ last.unresolved_only
    /\ Len(last.ret) >= 1
    /\ \E e \in errors : e.resolved = 1

\* C11: the journal is append-only. Each log returns an id greater than every
\* id returned before, no record is ever deleted, action, error, context and
\* created_at of a record never change, and resolved only goes from false to
\* true.
C11_JournalAppendOnly ==
    [][ /\ (last'.op = "log_error" /\ errSeq' # errSeq)
           => /\ \A e \in errors : last'.ret > e.id
              /\ last'.ret > errSeq
              /\ \E e \in errors' \ errors : e.id = last'.ret
        /\ \A e \in errors :
             \E f \in errors' :
                /\ f.id = e.id
                /\ f.action = e.action
                /\ f.error = e.error
                /\ f.context = e.context
                /\ f.created_at = e.created_at
                /\ f.resolved >= e.resolved
        /\ \A f \in errors' : Cardinality({g \in errors' : g.id = f.id}) = 1 ]_vars

\* Two errors logged, the first one resolved and the second one still open.
C11_Witness ==
    /\ last.op = "resolve_error"
    /\ last.ret = TRUE
    /\ Cardinality(errors) = 2
    /\ \E e \in errors : e.id = last.error_id /\ e.id = 1 /\ e.resolved = 1
    /\ \E e \in errors : e.id = 2 /\ e.resolved = 0

\* C12: get_recent_errors(limit, unresolved_only) returns at most limit records,
\* most recent first by created_at; with unresolved_only it returns only
\* unresolved records, and the records it returns are the limit most recent
\* qualifying ones.
C12_RecentErrorsAtMostLimit ==
    (last.op = "get_recent_errors" /\ last.raised = "none") =>
        LET r == last.ret
            Q == RecentRows(errors, last.unresolved_only)
        IN  /\ \A k \in 1..Len(r) : k <= last.limit
            /\ \A i, j \in 1..Len(r) :
                  i < j => r[i] # r[j] /\ r[i].created_at >= r[j].created_at
            /\ \A i \in 1..Len(r) : r[i] \in Q
            /\ last.unresolved_only => \A i \in 1..Len(r) : r[i].resolved = 0
            /\ Len(r) = last.limit \/ Len(r) = Cardinality(Q)
            /\ \A e \in Q : (\A i \in 1..Len(r) : r[i] # e) =>
                  \A i \in 1..Len(r) : r[i].created_at >= e.created_at
\* C13: the memories recall returns are in non-increasing order of the recency
\* score and of created_at: of two matching memories remembered at different
\* times the later one is listed before the earlier one.
C13_RecallLaterFirst ==
    (last.op = "recall" /\ last.raised = "none") =>
        \A i, j \in 1..Len(last.ret) :
            i < j => /\ ScoreGeq(last.ret[i].recency_score, last.ret[j].recency_score)
                     /\ last.ret[i].created_at >= last.ret[j].created_at

\* C14: recall(query, limit) returns at most limit memories, and a limit of
\* zero or less is rejected: the call raises and no memory is returned.
C14_RecallAtMostLimit ==
    last.op = "recall" =>
        /\ last.limit <= 0 => last.raised # "none"
        /\ last.raised = "none" => Len(last.ret) <= last.limit

\* Text that is empty once whitespace is trimmed (not content.strip()).
IsBlank(text) == \A i \in 1..Len(text) : text[i] = " "

\* C15: remember fails when content is empty or only whitespace, and then adds
\* no memory row and no index entry.
C15_RememberRejectsBlank ==
    [][ (/\ last'.op = "remember"
         /\ uuidCount' # uuidCount
         /\ IsBlank(last'.content))
        => /\ last'.raised # "none"
           /\ memories' = memories
           /\ memories_fts' = memories_fts ]_vars

\* C16: store fails when name or content is empty, and then creates or
\* overwrites no artifact: an artifact already stored under the name keeps its
\* content.
C16_StoreRejectsEmpty ==
    [][ (/\ last'.op = "store"
         /\ uuidCount' # uuidCount
         /\ (last'.name = <<>> \/ last'.content = <<>>))
        => /\ last'.raised # "none"
           /\ artifacts' = artifacts ]_vars

(***************************************************************************)
(* Properties of mode detection and the budgets (SpecModes).               *)
(***************************************************************************)
\* keyword occurs in message as a substring, the case of letters ignored.
OccursIgnoringCase(keyword, message) ==
    \E k \in 0..(Len(message) - Len(keyword)) :
        \A j \in 1..Len(keyword) : LowerChar(message[k + j]) = LowerChar(keyword[j])

Reverse(seq) == [i \in 1..Len(seq) |-> seq[Len(seq) + 1 - i]]

\* C17: detect_mode(message) is debugging exactly when some debugging keyword
\* occurs in message as a substring, case ignored, and coding otherwise,
\* whatever the order the keywords are tried in; "The tests are failing" and
\* "Fix the bug in auth.py" are debugging, "Add a login feature" and "Refactor
\* the user service" are coding.
C17_DetectModeByKeyword ==
    last.op = "detect_mode" =>
        /\ last.ret \in {"coding", "debugging"}
        /\ last.ret = "debugging" <=>
              \E i \in 1..Len(DEBUG_KEYWORDS) :
                  OccursIgnoringCase(DEBUG_KEYWORDS[i], last.message)
        /\ last.ret = DetectFrom(Reverse(DEBUG_KEYWORDS), 1, StrLower(last.message))
        /\ last.message \in {TheTestsAreFailing, FixTheBugInAuthPy} => last.ret = "debugging"
        /\ last.message \in {AddALoginFeature, RefactorTheUserService} => last.ret = "coding"

\* A message whose only keyword is written in capitals inside a longer word.
C17_Witness ==
    /\ last.op = "detect_mode"
    /\ last.message = <<"P", "R", "E", "F", "I", "X">>
    /\ last.ret = "debugging"

Categories == {"memories", "artifacts", "session", "errors", "goal"}

SumOfBudget(budget) ==
    budget.memories + budget.artifacts + budget.session + budget.errors + budget.goal

WellFormedBudget(budget) ==
    /\ DOMAIN budget = Categories
    /\ \A c \in Categories : 0 <= budget[c] /\ budget[c] <= 100
    /\ SumOfBudget(budget) = 100

\* C18: for every mode of the table and for any mode string, get_attention_budget
\* returns fractions over memories, artifacts, session, errors and goal that lie
\* between 0 and 1 and add up to exactly 1 (100 hundredths); an unknown mode
\* gets the coding budget.
C18_BudgetSumsToOne ==
    /\ \A m \in DOMAIN MODES : WellFormedBudget(MODES[m])
    /\ last.op = "get_attention_budget" =>
          /\ WellFormedBudget(last.ret)
          /\ last.mode \in {"coding", "debugging"} => last.ret = MODES[last.mode]
          /\ last.mode \notin {"coding", "debugging"} => last.ret = MODES["coding"]

\* The budget asked for a mode the table does not have.
C18_Witness ==
    /\ last.op = "get_attention_budget"
    /\ last.mode = "planning"
    /\ last.ret.memories = 30
    /\ last.ret.goal = 5

(***************************************************************************)
(* Properties of status and of the reads (SpecSystem).                     *)
(***************************************************************************)
\* C19: status reports memories as the number of live memories, artifacts as
\* the number of names stored, unresolved_errors as the number of error records
\* not resolved, and mode as the stored current_mode, or coding without one.
C19_StatusCounts ==
    (last.op = "status" /\ conn.memory) =>
        /\ last.raised = "none"
        /\ last.ret.memories = Cardinality({m.id : m \in memories})
        /\ last.ret.artifacts = Cardinality(StoredNames)
        /\ last.ret.unresolved_errors = Cardinality({e.id : e \in {f \in errors : f.resolved = 0}})
        /\ \A r \in config : r.key = "current_mode" => last.ret.mode = r.value
        /\ (\A r \in config : r.key # "current_mode") => last.ret.mode = "coding"

\* One memory and one artifact as in test_status, and an error that was
\* logged and resolved.
C19_Witness ==
    /\ last.op = "status"
    /\ last.raised = "none"
    /\ last.ret.memories = 1
    /\ last.ret.artifacts = 1
    /\ last.ret.unresolved_errors = 0
    /\ last.ret.mode = "coding"
    /\ \E e \in errors : e.resolved = 1

\* C20: status, recall, retrieve and get_recent_errors leave the memories
\* table, the index, the artifacts, errors, session and config tables as they
\* were.
C20_ReadsChangeNothing ==
    [][ last'.op \in {"status", "recall", "retrieve", "get_recent_errors"}
        => UNCHANGED <<memories, memories_fts, artifacts, errors, errSeq,
                       config, session>> ]_vars

\* A recall that returns a memory while an artifact and an error are stored.
C20_Witness ==
    /\ last.op = "recall"
    /\ last.raised = "none"
    /\ Len(last.ret) = 1
    /\ artifacts # {}
    /\ errors # {}

(***************************************************************************)
(* Properties of closing and reopening a store (SpecLifecycle).            *)
(***************************************************************************)
\* The operations of SimpleMemory run on the connection of memory.storage,
\* those of ErrorMemory and the context compiler on that of storage.
MemoryOps == {"remember", "recall", "forget", "store", "retrieve", "status"}

StorageOps == {"log_error", "resolve_error", "get_recent_errors",
               "get_context_for_claude"}

HandleOf(op) == IF op \in MemoryOps THEN "memory" ELSE "storage"

\* C21: close may be called any number of times without raising, and every
\* operation issued on a store after its close (remember, recall, forget,
\* store, retrieve, status, log_error, resolve_error, get_recent_errors) fails
\* with the closed-connection error and changes no persisted data.
C21_ClosedStoreFails ==
    [][ /\ last'.op = "close"
           => /\ last'.raised = "none"
              /\ ~conn'[last'.handle]
              /\ UNCHANGED dbVars
        /\ ( /\ last'.op \in MemoryOps \cup StorageOps
             /\ ~conn[HandleOf(last'.op)] )
           => /\ last'.raised = ClosedError
              /\ "ret" \notin DOMAIN last'
              /\ UNCHANGED dbVars
        /\ ( /\ last.op = "close"
             /\ last'.op \in MemoryOps \cup StorageOps
             /\ HandleOf(last'.op) = last.handle )
           => /\ last'.raised = ClosedError
              /\ UNCHANGED dbVars ]_vars

\* A remember refused on the closed store of SimpleMemory, which holds a
\* memory from before, while the other store is closed as well.
C21_Witness ==
    /\ last.op = "remember"
    /\ last.raised = ClosedError
    /\ ~conn.memory
    /\ ~conn.storage
    /\ memories # {}

(***************************************************************************)
(* Properties of the two handles on the one database (SpecSystem).         *)
(***************************************************************************)
\* The compiled context has a section of this title that lists the item.
Lists(context, title, item) ==
    \E k \in 1..Len(context) :
        /\ context[k].title = title
        /\ IF title = "Available Artifacts"
           THEN item \in context[k].items
           ELSE \E i \in 1..Len(context[k].items) : context[k].items[i] = item

\* Every memory row has its index entry.
RowsAreIndexed(mem, fts) ==
    \A m \in mem : /\ m.rowid \in fts.docsize
                   /\ Instances(m.rowid, m.content, m.tags) \subseteq fts.data

\* Every index entry has its memory row.
IndexHasRows(mem, fts) ==
    /\ \A r \in fts.docsize : \E m \in mem : m.rowid = r
    /\ \A i \in fts.data : \E m \in mem : m.rowid = i.rowid

\* C22: every mutating operation has committed when it returns: a read issued
\* next through the other handle of the server sees the whole mutation, and
\* the database never holds a memory row without its index entry or an index
\* entry without its row.
C22_CommittedAndWhole ==
    [][ /\ ( /\ last.op = "remember" /\ last.raised = "none"
             /\ last'.op = "get_context_for_claude" /\ last'.raised = "none" )
           => Lists(last'.ret, "Memories", last.content)
        /\ ( /\ last.op = "store" /\ last.raised = "none"
             /\ last'.op = "get_context_for_claude" /\ last'.raised = "none" )
           => Lists(last'.ret, "Available Artifacts", last.name)
        /\ ( /\ last.op = "forget" /\ last.raised = "none"
             /\ last'.op = "get_context_for_claude" /\ last'.raised = "none" )
           => \A k \in 1..Len(last'.ret) :
                 last'.ret[k].title = "Memories" =>
                    \A i \in 1..Len(last'.ret[k].items) :
                       ~Like(last'.ret[k].items[i], ForgetPattern(last.query))
        /\ ( /\ last.op = "log_error" /\ last.raised = "none"
             /\ last'.op = "status" /\ last'.raised = "none" )
           => /\ last'.ret.unresolved_errors >= 1
              /\ \E e \in errors' : e.id = last.ret /\ e.resolved = 0
        /\ ( /\ last.op = "resolve_error" /\ last.raised = "none" /\ last.ret
             /\ last'.op = "status" /\ last'.raised = "none" )
           => last'.ret.unresolved_errors
                 = Cardinality({e \in errors : e.resolved = 0 /\ e.id # last.error_id})
        /\ RowsAreIndexed(memories', memories_fts')
        /\ IndexHasRows(memories', memories_fts') ]_vars

(***************************************************************************)
(* Properties of the life of a memory (SpecSystem, SpecLedger).            *)
(***************************************************************************)
\* C23: a memory is never updated in place: while a memory of its id is
\* stored, its rowid, id, content, tags, created_at and importance stay as
\* remember wrote them, whatever operation runs, and only a forget whose
\* pattern matches its content removes it.
C23_MemoryNeverUpdated ==
    [][ /\ \A m \in memories :
              /\ \A n \in memories' : n.id = m.id => n = m
              /\ m \notin memories'
                 => /\ last'.op = "forget"
                    /\ Like(m.content, ForgetPattern(last'.query))
        /\ \A m, n \in memories' : m.id = n.id => m = n ]_vars

\* A forget that deleted one memory and kept the other, with an artifact
\* stored in between.
C23_Witness ==
    /\ last.op = "forget"
    /\ last.raised = "none"
    /\ last.ret = 1
    /\ Cardinality(memories) = 1
    /\ artifacts # {}

\* C24: after any sequence of remember and forget, every memory recall(q)
\* returns has q as a token of its own content or tags; a memory remembered
\* after a forget is not returned for a term of the forgotten memory only.
C24_RecallSound ==
    (last.op = "recall" /\ last.raised = "none") =>
        \A k \in 1..Len(last.ret) :
            \E m \in memories :
                /\ m.id = last.ret[k].id
                /\ m.content = last.ret[k].content
                /\ OwnMatch(m, last.query)

C26_ReopenKeepsData ==
    [][ /\ last'.op = "open"
           => /\ last'.raised = "none"
              /\ conn'[last'.handle]
              /\ UNCHANGED dbVars
              /\ \A q \in Queries :
                    RecallRows(memories', memories_fts', q)
                        = RecallRows(memories, memories_fts, q)
        /\ ( /\ last.op = "open" /\ last.handle = "memory"
             /\ last'.op = "recall"
             /\ LimitHolds(last'.limit, RecallRows(memories, memories_fts, last'.query)) )
           => /\ last'.raised = "none"
              /\ \A m \in memories :
                    OwnMatch(m, last'.query)
                    => \E k \in 1..Len(last'.ret) :
                          /\ last'.ret[k].id = m.id
                          /\ last'.ret[k].content = m.content ]_vars

\* The store of SimpleMemory opened again on a database that holds a memory,
\* an artifact and an error record.
C26_Witness ==
    /\ last.op = "open"
    /\ last.handle = "memory"
    /\ conn.memory
    /\ memories # {}
    /\ memories_fts.docsize # {}
    /\ artifacts # {}
    /\ errors # {}

====
